---- MODULE Spec2Model ----
(***************************************************************************)
(* Model of the in-memory store of src/modal_api.py (SimulatedDatabase)    *)
(* and of the handlers that read and change it.                            *)
(*                                                                         *)
(* Each handler is an `async def` without any await, so it runs to         *)
(* completion on the event loop: one action per handler call.  SpecLoop    *)
(* also runs create_order one statement group at a time, to see which      *)
(* states the event loop lets another handler observe.                     *)
(*                                                                         *)
(* Prices are floats with two decimals in the source (199.99); the model   *)
(* keeps them as integer hundredths (19999).  Timestamps (created_at) and  *)
(* Product.description are never read by a handler that changes state and  *)
(* are left out of the records.                                            *)
(***************************************************************************)
EXTENDS Integers, Sequences, FiniteSets, TLC

\* users, products, orders: the collections of db; last: the outcome of the
\* last handler call; running: the create_order call that has begun and not
\* ended (SpecLoop), Idle when there is none
VARIABLES users, products, orders, last, running

vars == <<users, products, orders, last, running>>

----------------------------------------------------------------------------
(* Bounds of the model *)

\* most users the store is let to hold
MaxUsers == 4
\* most orders the store is let to hold
MaxOrders == 1
\* most items in one create_order request
MaxItems == 2
\* a request that would lift a stock_quantity more than this above its seeded
\* value is not issued
MaxRestock == 0

\* the largest count asked of generate_random_data (the source allows up to 20)
MaxCount == 2

----------------------------------------------------------------------------
(* Values *)

\* Python's None, the result of dict.get on an absent key
None == "<None>"

\* values of uuid.uuid4(): pairwise distinct and distinct from every id a
\* request supplies
UuidPool == <<"uuid_1", "uuid_2", "uuid_3", "uuid_4", "uuid_5", "uuid_6",
              "uuid_7", "uuid_8", "uuid_9", "uuid_10", "uuid_11", "uuid_12">>

\* a uuid4 drawn while the store holds us users and os orders: none of the
\* stored ids equals it
NewUuid(us, os) == UuidPool[Len(us) + Len(os) + 1]

SampleUsers ==
    << [id |-> "user_001", username |-> "alice_w", email |-> "alice@example.com",
        role |-> "admin", is_active |-> TRUE],
       [id |-> "user_002", username |-> "bob_smith", email |-> "bob@example.com",
        role |-> "user", is_active |-> TRUE],
       [id |-> "user_003", username |-> "charlie_b", email |-> "charlie@example.com",
        role |-> "guest", is_active |-> TRUE] >>

SampleProducts ==
    << [id |-> "prod_001", name |-> "Wireless Headphones", price |-> 19999,
        category |-> "Electronics", in_stock |-> TRUE, stock_quantity |-> 50,
        tags |-> <<"audio", "wireless", "tech">>],
       [id |-> "prod_002", name |-> "Coffee Maker", price |-> 8999,
        category |-> "Home & Kitchen", in_stock |-> TRUE, stock_quantity |-> 25,
        tags |-> <<"kitchen", "appliance", "coffee">>],
       [id |-> "prod_003", name |-> "Yoga Mat", price |-> 2999,
        category |-> "Fitness", in_stock |-> TRUE, stock_quantity |-> 100,
        tags |-> <<"fitness", "yoga", "exercise">>] >>

----------------------------------------------------------------------------
(* Requests *)

\* dict.get(key) / dict.get(key, default)
Get(d, key, default) == IF key \in DOMAIN d THEN d[key] ELSE default

UsernameInputs == {"alice_w", "Alice_W", "dave_k"}
EmailInputs == {"alice@example.com", "dave@example.com", "erin@example.com"}
UserIdInputs == {"user_001"}

\* bodies that set role and is_active instead of leaving them to their defaults
InactiveUserRequests ==
    [username : {"dave_k"}, email : {"alice@example.com", "dave@example.com"},
     role : {"admin"}, is_active : {FALSE}]

\* bodies of POST /api/users: id, role and is_active are optional
UserRequests ==
    [username : UsernameInputs, email : EmailInputs]
    \cup [id : UserIdInputs, username : UsernameInputs, email : EmailInputs]
    \cup InactiveUserRequests

\* query parameters of GET /api/users, each optional: role is one of UserRole,
\* active_only defaults to True, limit (1..100) to 10
RoleInputs == {"admin", "user", "guest"}
LimitInputs == {1, 2}

\* the query parameters given under the name key, or none of them
OptField(key, S) == {<<>>} \cup {key :> v : v \in S}

UserQueries ==
    {r @@ a @@ l : r \in OptField("role", RoleInputs),
                   a \in OptField("active_only", {FALSE}),
                   l \in OptField("limit", LimitInputs)}

\* query parameters of GET /api/products, each optional: category and tag are
\* strings (empty for `?category=`), the prices are in hundredths, in_stock
\* defaults to True
CategoryInputs == {"electronics", ""}
PriceInputs == {8999}
TagInputs == {"Yoga", ""}

ProductQueries ==
    {c @@ lo @@ hi @@ st @@ t : c \in OptField("category", CategoryInputs),
                                lo \in OptField("min_price", PriceInputs),
                                hi \in OptField("max_price", PriceInputs),
                                st \in OptField("in_stock", {FALSE}),
                                t \in OptField("tag", TagInputs)}

ProductIdInputs == {"prod_001", "prod_999"}
QuantityInputs == {-25, 25}
KnownUserIdInputs == {"user_001"}
UnknownUserIdInputs == {"user_999"}

\* one element of the "products" list of an order body
ItemInputs == [product_id : ProductIdInputs, quantity : QuantityInputs]

RECURSIVE SeqsUpTo(_, _)
SeqsUpTo(S, n) ==
    IF n = 0 THEN {<<>>}
    ELSE LET shorter == SeqsUpTo(S, n - 1)
         IN shorter \cup {Append(s, x) : s \in {t \in shorter : Len(t) = n - 1}, x \in S}

\* bodies of POST /api/orders; those that name no stored user carry at most one
\* item
OrderRequests ==
    [user_id : KnownUserIdInputs, products : SeqsUpTo(ItemInputs, MaxItems)]
    \cup [user_id : UnknownUserIdInputs, products : SeqsUpTo(ItemInputs, 1)]

\* Bodies the handler accepts as a dict although they are no well-formed order:
\* no "products" key, an item without "product_id", an item without "quantity",
\* and an item whose "quantity" is null or a string.  A quantity that is no
\* integer is written as its Python type under "quantity_type" (its value
\* plays no part before the comparison with the stock).
QuantityTypeInputs == {"NoneType", "str"}

LooseItemInputs ==
    [quantity : {25}]
    \cup [product_id : {"prod_001"}]
    \cup [product_id : {"prod_001"}, quantity : {0}, quantity_type : QuantityTypeInputs]

LooseOrderRequests ==
    [user_id : KnownUserIdInputs]
    \cup [user_id : KnownUserIdInputs, products : SeqsUpTo(LooseItemInputs, MaxItems)]

----------------------------------------------------------------------------
(* Lookups: next((x for x in xs if x.id == id), None) *)

\* index of the first element of xs whose id is id, 0 when there is none
RECURSIVE FindFrom(_, _, _)
FindFrom(xs, id, i) ==
    IF i > Len(xs) THEN 0
    ELSE IF xs[i].id = id THEN i
    ELSE FindFrom(xs, id, i + 1)

FindById(xs, id) == FindFrom(xs, id, 1)

----------------------------------------------------------------------------
(* Responses *)

Detail(msg, arg) == [msg |-> msg, arg |-> arg]

\* What the last handler call left behind: the handler (op), the user the
\* request named and the number of items it carried (create_order: user_id,
\* n_items) or the body it carried (create_user, lookups: item), and how the
\* call ended.  For create_order, lines is the handler's local list `products`
\* when it returned or raised, item the element of the request the loop was at
\* when it raised, failed_at its position.
Call(op, user_id, n_items, lines, item, failed_at, status_code, detail) ==
    [op |-> op, user_id |-> user_id, n_items |-> n_items, lines |-> lines,
     item |-> item, failed_at |-> failed_at, status_code |-> status_code,
     detail |-> detail]

NoCall == Call("none", None, 0, <<>>, None, 0, 200, Detail("", None))

----------------------------------------------------------------------------
(* The event loop *)

\* no create_order call is between its first and its last statement
Idle == [pc |-> "idle"]

\* the handler reaches an await expression a create_order call could be
\* suspended at
Awaits_in_loop(task) == TRUE

\* create_order holds no await expression: a call that has begun is never
\* suspended
Awaits(task) == FALSE

\* the event loop can start another handler: no call has begun, or the one that
\* has is suspended at an await
LoopFree == running = Idle \/ Awaits(running)

----------------------------------------------------------------------------
(* create_user *)

\* the User the framework builds from the body: id defaults to a uuid4, role to
\* UserRole.USER, is_active to True
User(req, us, os) ==
    [id |-> Get(req, "id", NewUuid(us, os)), username |-> req.username,
     email |-> req.email, role |-> Get(req, "role", "user"),
     is_active |-> Get(req, "is_active", TRUE)]

\* the scan starts at the second user of the collection
UsernameExists_skips_first(us, user) ==
    \E i \in 2..Len(us) : us[i].username = user.username

UsernameExists(us, user) == \E i \in 1..Len(us) : us[i].username = user.username

\* the email is compared with the stored usernames
EmailExists_wrong_field(us, user) == \E i \in 1..Len(us) : us[i].username = user.email

EmailExists(us, user) == \E i \in 1..Len(us) : us[i].email = user.email

\* the users collection and the response of create_user
create_user(us, os, req) ==
    LET user == User(req, us, os)
    IN IF UsernameExists(us, user)
       THEN [users |-> us,
             resp |-> Call("create_user", None, 0, <<>>, req, 0, 400,
                          Detail("Username already exists", None))]
       ELSE IF EmailExists(us, user)
       THEN [users |-> us,
             resp |-> Call("create_user", None, 0, <<>>, req, 0, 400,
                          Detail("Email already exists", None))]
       ELSE [users |-> Append(us, user),
             resp |-> Call("create_user", None, 0, <<>>, req, 0, 200,
                          Detail("User created successfully", None))]

CreateUser ==
    \E req \in UserRequests :
        LET r == create_user(users, orders, req)
        IN /\ LoopFree
           /\ Len(r.users) <= MaxUsers
           /\ users' = r.users
           /\ last' = r.resp
           /\ UNCHANGED <<products, orders, running>>

----------------------------------------------------------------------------
(* create_order *)

\* the stock goes down by one whatever the quantity
UpdateStock_by_one(product, quantity) ==
    LET stock == product.stock_quantity - 1
    IN [product EXCEPT !.stock_quantity = stock,
                       !.in_stock = IF stock = 0 THEN FALSE ELSE @]

\* product.stock_quantity -= quantity; if it is now 0, product.in_stock = False
UpdateStock(product, quantity) ==
    LET stock == product.stock_quantity - quantity
    IN [product EXCEPT !.stock_quantity = stock,
                       !.in_stock = IF stock = 0 THEN FALSE ELSE @]

\* the dict appended to the order's products list
LineItem(product_id, product, quantity) ==
    [product_id |-> product_id, name |-> product.name, quantity |-> quantity,
     price |-> product.price, subtotal |-> product.price * quantity]

\* total_amount += product.price, the quantity forgotten
AddToTotal_unit_price(total_amount, product, quantity) == total_amount + product.price

\* total_amount += product.price * quantity
AddToTotal(total_amount, product, quantity) == total_amount + product.price * quantity

\* <= for <: an order for all that is left is turned down
InsufficientStock_or_equal(product, quantity) == product.stock_quantity <= quantity

\* the check left out
InsufficientStock_unchecked(product, quantity) == FALSE

\* product.stock_quantity < quantity: raise "Insufficient stock"
InsufficientStock(product, quantity) == product.stock_quantity < quantity

\* the Python type of item.get("quantity", 1)
QuantityType(item) == Get(item, "quantity_type", "int")

\* int < quantity is defined for a number; for None or a str it raises TypeError
Comparable(quantity_type) == quantity_type = "int"

\* One pass of the body of `for item in order_data.get("products", [])`, on the
\* loop state st: the store's products, the local list `products` (lines), the
\* local total_amount, and the exception raised, if any (failed_at is 0 while
\* none was, else the position i of the item that raised it).
ProcessItem(st, item, i) ==
    LET product_id == Get(item, "product_id", None)
        quantity == Get(item, "quantity", 1)
        idx == FindById(st.products, product_id)
        product == st.products[idx]
    IN IF idx = 0
       THEN [st EXCEPT !.status_code = 404,
                       !.detail = Detail("Product not found", product_id),
                       !.item = item,
                       !.failed_at = i]
       ELSE IF ~Comparable(QuantityType(item))
       THEN [st EXCEPT !.status_code = 500,
                       !.detail = Detail("TypeError", QuantityType(item)),
                       !.item = item,
                       !.failed_at = i]
       ELSE IF InsufficientStock(product, quantity)
       THEN [st EXCEPT !.status_code = 400,
                       !.detail = Detail("Insufficient stock", product.name),
                       !.item = item,
                       !.failed_at = i]
       ELSE [st EXCEPT !.products[idx] = UpdateStock(product, quantity),
                       !.lines = Append(@, LineItem(product_id, product, quantity)),
                       !.total_amount = AddToTotal(@, product, quantity)]

\* the loop goes on to the next item after an exception
RECURSIVE ProcessItems_keeps_going(_, _, _)
ProcessItems_keeps_going(st, items, i) ==
    IF i > Len(items) THEN st
    ELSE ProcessItems_keeps_going(ProcessItem(st, items[i], i), items, i + 1)

\* the for loop from item i on: a raised exception ends it
RECURSIVE ProcessItems(_, _, _)
ProcessItems(st, items, i) ==
    IF i > Len(items) \/ st.failed_at # 0 THEN st
    ELSE ProcessItems(ProcessItem(st, items[i], i), items, i + 1)

\* status left at the default of the Order class
Order_default_status(id, user, lines, total_amount) ==
    [id |-> id, user_id |-> user.id, products |-> lines,
     total_amount |-> total_amount, status |-> "pending"]

\* Order(user_id=user.id, products=products, total_amount=total_amount, status="confirmed")
Order(id, user, lines, total_amount) ==
    [id |-> id, user_id |-> user.id, products |-> lines,
     total_amount |-> total_amount, status |-> "confirmed"]

\* db.orders = [order]: the new order takes the place of the stored ones
AppendOrder_replaces(os, order) == <<order>>

\* db.orders.append(order)
AppendOrder(os, order) == Append(os, order)

\* the user is looked up after the items were processed
create_order_items_first(us, ps, os, req) ==
    LET user_id == Get(req, "user_id", None)
        uidx == FindById(us, user_id)
        st0 == [products |-> ps, lines |-> <<>>, total_amount |-> 0, item |-> None,
                status_code |-> 200, detail |-> Detail("", None), failed_at |-> 0]
        items == Get(req, "products", <<>>)
        st == ProcessItems(st0, items, 1)
    IN IF st.failed_at # 0
       THEN [products |-> st.products, orders |-> os,
             resp |-> Call("create_order", user_id, Len(items), st.lines, st.item,
                           st.failed_at, st.status_code, st.detail)]
       ELSE IF uidx = 0
       THEN [products |-> st.products, orders |-> os,
             resp |-> Call("create_order", user_id, Len(items), <<>>, None, 0, 404,
                           Detail("User not found", None))]
       ELSE [products |-> st.products,
             orders |-> AppendOrder(os, Order(NewUuid(us, os), us[uidx], st.lines,
                                              st.total_amount)),
             resp |-> Call("create_order", user_id, Len(items), st.lines, None, 0, 200,
                           Detail("Order created successfully", None))]

\* the products and orders collections and the outcome of create_order
create_order(us, ps, os, req) ==
    LET user_id == Get(req, "user_id", None)
        uidx == FindById(us, user_id)
        st0 == [products |-> ps, lines |-> <<>>, total_amount |-> 0, item |-> None,
                status_code |-> 200, detail |-> Detail("", None), failed_at |-> 0]
        items == Get(req, "products", <<>>)
        st == ProcessItems(st0, items, 1)
    IN IF uidx = 0
       THEN [products |-> ps, orders |-> os,
             resp |-> Call("create_order", user_id, Len(items), <<>>, None, 0, 404,
                           Detail("User not found", None))]
       ELSE IF st.failed_at # 0
       THEN [products |-> st.products, orders |-> os,
             resp |-> Call("create_order", user_id, Len(items), st.lines, st.item,
                           st.failed_at, st.status_code, st.detail)]
       ELSE [products |-> st.products,
             orders |-> AppendOrder(os, Order(NewUuid(us, os), us[uidx], st.lines,
                                              st.total_amount)),
             resp |-> Call("create_order", user_id, Len(items), st.lines, None, 0, 200,
                           Detail("Order created successfully", None))]

\* the outcome r of a create_order call keeps the store within the bounds of
\* the model
WithinBounds(r) ==
    /\ Len(r.orders) <= MaxOrders
    /\ \A i \in 1..Len(r.products) :
          r.products[i].stock_quantity
              <= SampleProducts[i].stock_quantity + MaxRestock

CreateOrder ==
    \E req \in OrderRequests :
        LET r == create_order(users, products, orders, req)
        IN /\ LoopFree
           /\ WithinBounds(r)
           /\ products' = r.products
           /\ orders' = r.orders
           /\ last' = r.resp
           /\ UNCHANGED <<users, running>>

\* POST /api/orders with a body that is a dict and no well-formed order
CreateOrderLoose ==
    \E req \in LooseOrderRequests :
        LET r == create_order(users, products, orders, req)
        IN /\ LoopFree
           /\ WithinBounds(r)
           /\ products' = r.products
           /\ orders' = r.orders
           /\ last' = r.resp
           /\ UNCHANGED <<users, running>>

----------------------------------------------------------------------------
(* create_order, one statement group at a time *)

\* The call of create_order that has begun: its body req, the position uidx of
\* its user, the position i of the next item of the for loop, its locals
\* `products` (lines) and total_amount, and the store as the call found it.
Task(req, uidx, us, ps, os) ==
    [pc |-> "loop", req |-> req, uidx |-> uidx, i |-> 1, lines |-> <<>>,
     total_amount |-> 0, begin |-> [users |-> us, products |-> ps, orders |-> os]]

\* lines 239-245: the user lookup and the empty locals
OrderBegin ==
    \E req \in OrderRequests :
        LET user_id == Get(req, "user_id", None)
            uidx == FindById(users, user_id)
            items == Get(req, "products", <<>>)
        IN /\ LoopFree
           /\ running = Idle
           /\ WithinBounds(create_order(users, products, orders, req))
           /\ IF uidx = 0
              THEN /\ last' = Call("create_order", user_id, Len(items), <<>>, None, 0,
                                   404, Detail("User not found", None))
                   /\ running' = Idle
              ELSE /\ last' = NoCall
                   /\ running' = Task(req, uidx, users, products, orders)
           /\ UNCHANGED <<users, products, orders>>

\* lines 247-274: one pass of the for loop
OrderItem ==
    /\ running # Idle
    /\ running.i <= Len(Get(running.req, "products", <<>>))
    /\ LET items == Get(running.req, "products", <<>>)
           st0 == [products |-> products, lines |-> running.lines,
                   total_amount |-> running.total_amount, item |-> None,
                   status_code |-> 200, detail |-> Detail("", None), failed_at |-> 0]
           st == ProcessItem(st0, items[running.i], running.i)
       IN /\ products' = st.products
          /\ IF st.failed_at # 0
             THEN /\ last' = Call("create_order", running.req.user_id, Len(items),
                                  st.lines, st.item, st.failed_at, st.status_code,
                                  st.detail)
                  /\ running' = Idle
             ELSE /\ running' = [running EXCEPT !.i = @ + 1,
                                                !.lines = st.lines,
                                                !.total_amount = st.total_amount]
                  /\ UNCHANGED last
    /\ UNCHANGED <<users, orders>>

\* lines 276-290: the order is built, appended and returned
OrderEnd ==
    /\ running # Idle
    /\ running.i > Len(Get(running.req, "products", <<>>))
    /\ orders' = AppendOrder(orders, Order(NewUuid(users, orders), users[running.uidx],
                                          running.lines, running.total_amount))
    /\ last' = Call("create_order", running.req.user_id,
                    Len(Get(running.req, "products", <<>>)), running.lines, None, 0,
                    200, Detail("Order created successfully", None))
    /\ running' = Idle
    /\ UNCHANGED <<users, products>>

----------------------------------------------------------------------------
(* get_users *)

\* the whole list whatever the limit
Truncate_unlimited(xs, limit) == xs

\* users[:limit], for a limit of 1 or more
Truncate(xs, limit) == SubSeq(xs, 1, IF limit < Len(xs) THEN limit ELSE Len(xs))

\* the users collection and the response of get_users for the query q
get_users(us, q) ==
    LET by_role == IF "role" \in DOMAIN q
                   THEN SelectSeq(us, LAMBDA u : u.role = q.role)
                   ELSE us
        by_active == IF Get(q, "active_only", TRUE)
                     THEN SelectSeq(by_role, LAMBDA u : u.is_active)
                     ELSE by_role
        result == Truncate(by_active, Get(q, "limit", 10))
    IN [users |-> us,
        resp |-> Call("get_users", None, Len(result), result, q, 0, 200,
                      Detail("Retrieved users", None))]

GetUsers ==
    \E q \in UserQueries :
        LET r == get_users(users, q)
        IN /\ LoopFree
           /\ users' = r.users
           /\ last' = r.resp
           /\ UNCHANGED <<products, orders, running>>

----------------------------------------------------------------------------
(* get_products *)

\* str.lower() on the strings of the model
Lower(str) ==
    CASE str = "Electronics" -> "electronics"
      [] str = "Home & Kitchen" -> "home & kitchen"
      [] str = "Fitness" -> "fitness"
      [] str = "Yoga" -> "yoga"
      [] OTHER -> str

\* `if category:` on an Optional[str] parameter: given and not empty
Truthy(q, key) == key \in DOMAIN q /\ q[key] # ""

\* p.price < max_price
PriceAtMost_strict(p, max_price) == p.price < max_price

\* p.price <= max_price
PriceAtMost(p, max_price) == p.price <= max_price

\* the local list `products` after the filters of the query q, one after the
\* other
FilterProducts(ps, q) ==
    LET by_category == IF Truthy(q, "category")
                       THEN SelectSeq(ps, LAMBDA p : Lower(p.category) = Lower(q.category))
                       ELSE ps
        by_min == IF "min_price" \in DOMAIN q
                  THEN SelectSeq(by_category, LAMBDA p : p.price >= q.min_price)
                  ELSE by_category
        by_max == IF "max_price" \in DOMAIN q
                  THEN SelectSeq(by_min, LAMBDA p : PriceAtMost(p, q.max_price))
                  ELSE by_min
        by_stock == IF Get(q, "in_stock", TRUE)
                    THEN SelectSeq(by_max, LAMBDA p : p.in_stock /\ p.stock_quantity > 0)
                    ELSE by_max
    IN IF Truthy(q, "tag")
       THEN SelectSeq(by_stock,
                      LAMBDA p : \E k \in 1..Len(p.tags) : Lower(p.tags[k]) = Lower(q.tag))
       ELSE by_stock

\* the filtered list takes the place of db.products
get_products_in_place(ps, q) ==
    LET result == FilterProducts(ps, q)
    IN [products |-> result,
        resp |-> Call("get_products", None, Len(result), result, q, 0, 200,
                      Detail("Retrieved products", None))]

\* the products collection and the response of get_products for the query q:
\* `products = db.products` binds a local name, the filters build new lists
get_products(ps, q) ==
    LET result == FilterProducts(ps, q)
    IN [products |-> ps,
        resp |-> Call("get_products", None, Len(result), result, q, 0, 200,
                      Detail("Retrieved products", None))]

GetProducts ==
    \E q \in ProductQueries :
        LET r == get_products(products, q)
        IN /\ LoopFree
           /\ products' = r.products
           /\ last' = r.resp
           /\ UNCHANGED <<users, orders, running>>

----------------------------------------------------------------------------
(* get_user, get_product, get_order *)

UserLookupInputs == {"user_001", "user_999"}
ProductLookupInputs == {"prod_002", "prod_999"}
OrderLookupInputs == {"uuid_4", "uuid_999"}

\* the outcome of a lookup by id in xs: the entity found, or 404
get_by_id(op, xs, id, missing) ==
    IF FindById(xs, id) = 0
    THEN Call(op, None, 0, <<>>, id, 0, 404, Detail(missing, None))
    ELSE Call(op, None, 1, <<xs[FindById(xs, id)]>>, id, 0, 200,
              Detail("retrieved", None))

GetUser ==
    \E id \in UserLookupInputs :
        /\ LoopFree
        /\ last' = get_by_id("get_user", users, id, "User not found")
        /\ UNCHANGED <<users, products, orders, running>>

GetProduct ==
    \E id \in ProductLookupInputs :
        /\ LoopFree
        /\ last' = get_by_id("get_product", products, id, "Product not found")
        /\ UNCHANGED <<users, products, orders, running>>

GetOrder ==
    \E id \in OrderLookupInputs :
        /\ LoopFree
        /\ last' = get_by_id("get_order", orders, id, "Order not found")
        /\ UNCHANGED <<users, products, orders, running>>

----------------------------------------------------------------------------
(* get_statistics *)

RECURSIVE InventoryValue(_)
\* sum(p.price * p.stock_quantity for p in db.products), in hundredths
InventoryValue(ps) ==
    IF ps = <<>> THEN 0
    ELSE Head(ps).price * Head(ps).stock_quantity + InventoryValue(Tail(ps))

\* the stats of the store; recent is the number of orders that are less than 7
\* days old at the time of the call
get_statistics(us, ps, os, recent) ==
    Call("get_statistics", None, 1,
         <<[total_users |-> Len(us),
            total_products |-> Len(ps),
            total_orders |-> Len(os),
            active_users |-> Len(SelectSeq(us, LAMBDA u : u.is_active)),
            in_stock_products |-> Len(SelectSeq(ps, LAMBDA p : p.in_stock)),
            total_inventory_value |-> InventoryValue(ps),
            recent_orders |-> recent]>>,
         None, 0, 200, Detail("Statistics retrieved", None))

\* created_at and the clock are no part of the state: any number of the stored
\* orders can be the recent ones
GetStatistics ==
    \E recent \in 0..Len(orders) :
        /\ LoopFree
        /\ last' = get_statistics(users, products, orders, recent)
        /\ UNCHANGED <<users, products, orders, running>>

----------------------------------------------------------------------------
(* generate_random_data *)

\* the values accepted for data_type: regex ^(users|products|orders)$
DataTypeInputs == {"users", "products", "orders"}

\* what the random module can return: a role and an activity flag for a user;
\* a price between 10.00 and 500.00 and a stock between 0 and 200 for a
\* product.  The names, categories and tags drawn from the fixed word lists are
\* left out of the generated records.
PriceDraws == {1000, 25000, 50000}
StockDraws == {0, 1, 200}

\* User(username=..., email=..., role=random.choice(list(UserRole)),
\*      is_active=random.choice([True, False])).dict()
RandomUsers == [role : RoleInputs, is_active : BOOLEAN]

\* Product(price=..., stock_quantity=...), then
\* product.in_stock = product.stock_quantity > 0
RandomProduct(price, stock_quantity) ==
    LET product == [price |-> price, stock_quantity |-> stock_quantity,
                    in_stock |-> TRUE]
    IN [product EXCEPT !.in_stock = product.stock_quantity > 0]

RandomProducts == {RandomProduct(p, n) : p \in PriceDraws, n \in StockDraws}

\* the lists one run of `for i in range(count)` can build from the draws S
SeqsOfLen(S, count) == {xs \in SeqsUpTo(S, count) : Len(xs) = count}

\* the lists random_data can hold at the end of the call: no branch fills it for
\* "orders"
RandomData(data_type, count) ==
    IF data_type = "users" THEN SeqsOfLen(RandomUsers, count)
    ELSE IF data_type = "products" THEN SeqsOfLen(RandomProducts, count)
    ELSE {<<>>}

\* message "Generated {count} random {data_type}", data random_data
generate_random_data(data_type, count, random_data) ==
    Call("generate_random_data", None, count, random_data,
         [data_type |-> data_type, count |-> count], 0, 200,
         Detail("Generated random", data_type))

\* a call of GET /api/simulate/random-data with a count among counts
Generate(counts) ==
    \E data_type \in DataTypeInputs, count \in counts :
        \E random_data \in RandomData(data_type, count) :
            /\ LoopFree
            /\ last' = generate_random_data(data_type, count, random_data)
            /\ UNCHANGED <<users, products, orders, running>>

GenerateRandomData == Generate(1..MaxCount)

\* the call with a count of 1
GenerateOne == Generate({1})

----------------------------------------------------------------------------
Init ==
    /\ users = SampleUsers
    /\ products = SampleProducts
    /\ orders = <<>>
    /\ last = NoCall
    /\ running = Idle

Next ==
    \/ CreateUser
    \/ CreateOrder
    \/ GetUser
    \/ GetProduct

Spec == Init /\ [][Next]_vars

\* the store under user creation and user lookups alone
NextUsers ==
    \/ CreateUser
    \/ GetUser

SpecUsers == Init /\ [][NextUsers]_vars

\* the users under creation and listing
NextUserReads ==
    \/ CreateUser
    \/ GetUsers

SpecUserReads == Init /\ [][NextUserReads]_vars

\* the store under orders and lookups alone
NextOrders ==
    \/ CreateOrder
    \/ GetUser
    \/ GetProduct

SpecOrders == Init /\ [][NextOrders]_vars

\* the store under orders with every body the handler accepts
NextBodies ==
    \/ CreateOrder
    \/ CreateOrderLoose
    \/ GetProduct

SpecBodies == Init /\ [][NextBodies]_vars

\* create_order in steps on the event loop, beside whole handler calls
NextLoop ==
    \/ OrderBegin
    \/ OrderItem
    \/ OrderEnd
    \/ CreateOrder
    \/ GetProduct
    \/ GetStatistics

SpecLoop == Init /\ [][NextLoop]_vars

\* the generator on the seeded store
NextGenerate ==
    \/ GenerateRandomData
    \/ GetStatistics

SpecGenerate == Init /\ [][NextGenerate]_vars

\* The stores the read handlers are run on: the seeded store after one
\* create_user call and one create_order call, whatever their outcome.
InitReads ==
    \E ureq \in InactiveUserRequests, oreq \in OrderRequests :
        LET u == create_user(SampleUsers, <<>>, ureq)
            o == create_order(u.users, SampleProducts, <<>>, oreq)
        IN /\ WithinBounds(o)
           /\ users = u.users
           /\ products = o.products
           /\ orders = o.orders
           /\ last = NoCall
           /\ running = Idle

\* the read handlers alone, on each of these stores
NextReads ==
    \/ GetUsers
    \/ GetUser
    \/ GetProducts
    \/ GetProduct
    \/ GetOrder
    \/ GetStatistics
    \/ GenerateOne

SpecReads == InitReads /\ [][NextReads]_vars

----------------------------------------------------------------------------
(* Helpers of the properties *)

\* a step of create_order / create_user: the call the next state records
OrderCall == last'.op = "create_order"
UserCall == last'.op = "create_user"

\* the quantity the line items ls ask of the product with this id, in total
RECURSIVE SumQuantity(_, _)
SumQuantity(ls, id) ==
    IF ls = <<>> THEN 0
    ELSE (IF Head(ls).product_id = id THEN Head(ls).quantity ELSE 0)
         + SumQuantity(Tail(ls), id)

\* the sum of price * quantity over the line items ls
RECURSIVE SumLines(_)
SumLines(ls) ==
    IF ls = <<>> THEN 0
    ELSE Head(ls).price * Head(ls).quantity + SumLines(Tail(ls))

\* the products ps after the decrements of the line items ls, one after the other
RECURSIVE Decremented(_, _)
Decremented(ps, ls) ==
    IF ls = <<>> THEN ps
    ELSE Decremented(
            [i \in 1..Len(ps) |->
                IF ps[i].id # Head(ls).product_id THEN ps[i]
                ELSE [ps[i] EXCEPT
                        !.stock_quantity = @ - Head(ls).quantity,
                        !.in_stock = ps[i].in_stock
                                     /\ ps[i].stock_quantity # Head(ls).quantity]],
            Tail(ls))

----------------------------------------------------------------------------
(* C1 *)

\* C1: in every reachable state every stored product has
\* in_stock = (stock_quantity > 0).  create_order breaks it: it accepts a
\* negative quantity, which lifts a sold-out stock_quantity above 0, and it
\* never sets in_stock back to True.
C1_StockInvariant ==
    \A i \in 1..Len(products) :
        products[i].in_stock = (products[i].stock_quantity > 0)

----------------------------------------------------------------------------
(* C2 *)

\* C2: after any sequence of create_user calls, successful or failed, no two
\* distinct stored users share a username and no two share an email.
C2_UniqueUsernameEmail ==
    \A i, j \in 1..Len(users) :
        i # j => /\ users[i].username # users[j].username
                 /\ users[i].email # users[j].email

\* a user was created, and a later create_user was turned down for the
\* username of the created user
C2_Witness ==
    /\ Len(users) = Len(SampleUsers) + 1
    /\ last.op = "create_user"
    /\ last.status_code = 400
    /\ last.item.username = users[Len(users)].username

----------------------------------------------------------------------------
(* C3 *)

\* C3: no two stored users have the same id, also when a create_user request
\* supplies its own id.  The code stores the supplied id unchecked.
C3_UniqueUserIds ==
    \A i, j \in 1..Len(users) : i # j => users[i].id # users[j].id

----------------------------------------------------------------------------
(* C4 *)

\* C4: every stored order's total_amount is the sum of price * quantity over
\* its line items, and every line item's subtotal is its price * quantity; an
\* order without items has total 0.
C4_OrderTotals ==
    \A k \in 1..Len(orders) :
        /\ orders[k].total_amount = SumLines(orders[k].products)
        /\ \A j \in 1..Len(orders[k].products) :
              orders[k].products[j].subtotal =
                  orders[k].products[j].price * orders[k].products[j].quantity
        /\ orders[k].products = <<>> => orders[k].total_amount = 0

\* an order of two line items is stored
C4_Witness ==
    \E k \in 1..Len(orders) :
        /\ Len(orders[k].products) = 2
        /\ orders[k].total_amount # 0

----------------------------------------------------------------------------
(* C5 *)

\* C5: when create_order succeeds, every product's stock_quantity afterwards is
\* its stock_quantity before the call minus the total quantity the items of
\* the request ask of it (every item of the request became a line item), a
\* product no item names is unchanged, and a named product changes in
\* stock_quantity and in_stock only, in_stock staying as it was unless the stock
\* passed through 0.
C5_StockAfterOrder ==
    [][(OrderCall /\ last'.status_code = 200) =>
        /\ Len(last'.lines) = last'.n_items
        /\ Len(products') = Len(products)
        /\ \A i \in 1..Len(products) :
              /\ products'[i].stock_quantity =
                    products[i].stock_quantity
                    - SumQuantity(last'.lines, products[i].id)
              /\ (\A j \in 1..Len(last'.lines) :
                      last'.lines[j].product_id # products[i].id)
                 => products'[i] = products[i]
              /\ [products'[i] EXCEPT !.stock_quantity = 0, !.in_stock = TRUE]
                 = [products[i] EXCEPT !.stock_quantity = 0, !.in_stock = TRUE]
        /\ products' = Decremented(products, last'.lines)
      ]_vars

\* an order for 25 of a product succeeded and left 25 of it, still in stock
C5_Witness ==
    /\ last.op = "create_order"
    /\ last.status_code = 200
    /\ Len(last.lines) = 1
    /\ last.lines[1].quantity = 25
    /\ \E i \in 1..Len(products) :
          /\ products[i].id = last.lines[1].product_id
          /\ products[i].stock_quantity = 25
          /\ products[i].in_stock

----------------------------------------------------------------------------
(* C6 *)

\* the stock of product i when the loop reaches the item after the line items ls
StockLeft(i, ls) == products[i].stock_quantity - SumQuantity(ls, products[i].id)

\* C6: an item that asks for more than the product's current stock_quantity
\* makes create_order fail with status 400 and a detail naming the product, and
\* leaves the product's stock_quantity and in_stock as they were when the item
\* was reached; no item that asks for more than is left becomes a line item.
C6_InsufficientStock ==
    [][(OrderCall /\ FindById(users, last'.user_id) # 0) =>
        /\ \A j \in 1..Len(last'.lines) :
              LET i == FindById(products, last'.lines[j].product_id)
              IN /\ i # 0
                 /\ last'.lines[j].quantity <= StockLeft(i, SubSeq(last'.lines, 1, j - 1))
        /\ last'.failed_at = 0 => Len(last'.lines) = last'.n_items
        /\ last'.failed_at # 0 =>
              LET i == FindById(products, Get(last'.item, "product_id", None))
                  quantity == Get(last'.item, "quantity", 1)
              IN i # 0 =>
                    /\ quantity > StockLeft(i, last'.lines)
                    /\ last'.status_code = 400
                    /\ last'.detail = Detail("Insufficient stock", products[i].name)
                    /\ products'[i].stock_quantity = StockLeft(i, last'.lines)
                    /\ products'[i].in_stock = Decremented(products, last'.lines)[i].in_stock
      ]_vars

\* the second item of a request asked for more than the first had left
C6_Witness ==
    /\ last.op = "create_order"
    /\ last.status_code = 400
    /\ last.failed_at = 2
    /\ last.item.quantity = 25
    /\ \E i \in 1..Len(products) :
          /\ products[i].id = last.item.product_id
          /\ products[i].stock_quantity = 0
          /\ ~products[i].in_stock

----------------------------------------------------------------------------
(* C7 *)

\* C7: when item k of a create_order fails (product not found, or insufficient
\* stock), exactly the k-1 items before it became line items, the products are
\* those the decrements of these k-1 items produce, nothing is rolled back and
\* no later item is applied, and no order is stored.
C7_PartialEffect ==
    [][(OrderCall /\ last'.failed_at # 0) =>
        /\ last'.failed_at <= last'.n_items
        /\ Len(last'.lines) = last'.failed_at - 1
        /\ last'.status_code \in {400, 404}
        /\ products' = Decremented(products, last'.lines)
        /\ \A i \in 1..Len(products) :
              products'[i].stock_quantity = StockLeft(i, last'.lines)
        /\ orders' = orders
      ]_vars

\* the first of two items was applied and the second one named no product
C7_Witness ==
    /\ last.op = "create_order"
    /\ last.status_code = 404
    /\ last.failed_at = 2
    /\ last.n_items = 2
    /\ last.lines[1].quantity = 25
    /\ \E i \in 1..Len(products) :
          /\ products[i].id = last.lines[1].product_id
          /\ products[i].stock_quantity = SampleProducts[i].stock_quantity - 25

----------------------------------------------------------------------------
(* C8 *)

\* C8: create_order with a user_id that matches no stored user fails with
\* status 404 "User not found" before any item is processed: products and
\* orders are unchanged.
C8_UnknownUser ==
    [][(OrderCall /\ FindById(users, last'.user_id) = 0) =>
        /\ last'.status_code = 404
        /\ last'.detail = Detail("User not found", None)
        /\ last'.lines = <<>>
        /\ products' = products
        /\ orders' = orders
      ]_vars

\* a request of an unknown user carried an item, and the stock is as seeded
C8_Witness ==
    /\ last.op = "create_order"
    /\ last.detail.msg = "User not found"
    /\ last.n_items = 1
    /\ products = SampleProducts

----------------------------------------------------------------------------
(* C9 *)

\* C9: create_user with a username equal to a stored username, or an email
\* equal to a stored email (exact match), fails with status 400 and leaves the
\* users unchanged; otherwise it appends the supplied user at the end.
C9_CreateUser ==
    [][UserCall =>
        LET req == last'.item
            n == Len(users)
        IN IF \E i \in 1..n : \/ users[i].username = req.username
                              \/ users[i].email = req.email
           THEN /\ last'.status_code = 400
                /\ users' = users
           ELSE /\ last'.status_code = 200
                /\ Len(users') = n + 1
                /\ SubSeq(users', 1, n) = users
                /\ users'[n + 1].username = req.username
                /\ users'[n + 1].email = req.email
                /\ "id" \in DOMAIN req => users'[n + 1].id = req.id
                /\ users'[n + 1].role = Get(req, "role", "user")
                /\ users'[n + 1].is_active = Get(req, "is_active", TRUE)
      ]_vars

\* "Alice_W" was stored beside "alice_w", and a later request was turned down
\* for its email
C9_Witness ==
    /\ \E i \in 1..Len(users) : users[i].username = "Alice_W"
    /\ last.op = "create_user"
    /\ last.status_code = 400
    /\ last.detail.msg = "Email already exists"

----------------------------------------------------------------------------
(* C10 *)

\* C10: a successful create_order appends exactly one order, with status
\* "confirmed" and the user_id of a stored user; a failed one appends none.
C10_OrderAppended ==
    [][OrderCall =>
        LET n == Len(orders)
        IN IF last'.status_code = 200
           THEN /\ Len(orders') = n + 1
                /\ SubSeq(orders', 1, n) = orders
                /\ orders'[n + 1].status = "confirmed"
                /\ orders'[n + 1].user_id = last'.user_id
                /\ \E i \in 1..Len(users') : users'[i].id = orders'[n + 1].user_id
           ELSE orders' = orders
      ]_vars

\* one order is stored and a later create_order failed
C10_Witness ==
    /\ Len(orders) = 1
    /\ orders[1].status = "confirmed"
    /\ last.op = "create_order"
    /\ last.status_code = 400

----------------------------------------------------------------------------
(* C11 *)

----------------------------------------------------------------------------
(* C17 *)

----------------------------------------------------------------------------
(* C19 *)

\* C19: no call of create_order leaves a product's stock_quantity higher than
\* it was, whatever integer quantity its items carry.  create_order breaks it:
\* an item of negative quantity passes the stock check and is subtracted.
C19_StockOnlyGoesDown ==
    [][OrderCall =>
        \A i \in 1..Len(products) :
            products'[i].stock_quantity <= products[i].stock_quantity
      ]_vars

----------------------------------------------------------------------------
(* C20 *)

\* the quantity of the product with this id over the line items of the orders os
RECURSIVE Sold(_, _)
Sold(os, id) ==
    IF os = <<>> THEN 0
    ELSE SumQuantity(Head(os).products, id) + Sold(Tail(os), id)

\* C20: for every product, the quantity of it over the line items of all stored
\* orders is at most its seeded stock_quantity minus its current one.
\* create_order breaks it: a failed request whose first item carries a
\* negative quantity lifts the stock back, and stores no order.
C20_NoOverselling ==
    \A i \in 1..Len(products) :
        Sold(orders, products[i].id)
            <= SampleProducts[i].stock_quantity - products[i].stock_quantity

----------------------------------------------------------------------------
(* C18 *)

\* C18: every create_order call ends in a success payload (200) or a typed
\* failure (404 for an unknown user or product, 400 for insufficient stock or
\* an invalid argument), whatever the body: no call ends in an exception that
\* is no HTTPException.
C18_TypedOutcome ==
    last.op = "create_order" => last.status_code \in {200, 400, 404}

----------------------------------------------------------------------------
(* C14 *)

\* C14: get_users returns the first min(limit, n) of the n stored users that
\* have the role asked for (if one is) and are active (if active_only), in the
\* order of the store: never more than limit entries, never reordered.
C14_GetUsers ==
    last.op = "get_users" =>
        LET q == last.item
            limit == Get(q, "limit", 10)
            matching == {i \in 1..Len(users) :
                            /\ "role" \in DOMAIN q => users[i].role = q.role
                            /\ Get(q, "active_only", TRUE) => users[i].is_active}
            n == Cardinality(matching)
            m == IF limit < n THEN limit ELSE n
            kth(k) == CHOOSE i \in matching :
                          Cardinality({j \in matching : j < i}) = k - 1
        IN /\ Len(last.lines) = m
           /\ last.n_items = m
           /\ \A k \in 1..m : last.lines[k] = users[kth(k)]

\* a listing cut to 2 of the 3 active users, from a store that also holds an
\* inactive one
C14_Witness ==
    /\ last.op = "get_users"
    /\ Get(last.item, "limit", 10) = 2
    /\ "role" \notin DOMAIN last.item
    /\ Len(last.lines) = 2
    /\ last.lines[2].id = "user_002"
    /\ \E i \in 1..Len(users) : ~users[i].is_active

----------------------------------------------------------------------------
(* C15 *)

\* C15: for every data_type the generator accepts and every count asked for,
\* generate_random_data returns exactly count records; a generated product has
\* in_stock equal to stock_quantity > 0 and a price of 0 or more, a generated
\* user has a role among admin, user and guest.
C15_GeneratesCount ==
    last.op = "generate_random_data" =>
        /\ Len(last.lines) = last.item.count
        /\ \A k \in 1..Len(last.lines) :
              /\ last.item.data_type = "products" =>
                    /\ last.lines[k].in_stock = (last.lines[k].stock_quantity > 0)
                    /\ last.lines[k].price >= 0
              /\ last.item.data_type = "users" =>
                    last.lines[k].role \in {"admin", "user", "guest"}

----------------------------------------------------------------------------
(* C13 *)

\* product p has tag, ignoring case
HasTag(p, tag) == \E k \in 1..Len(p.tags) : Lower(p.tags[k]) = Lower(tag)

\* product p satisfies every predicate of the query q whose parameter is among
\* given
Satisfies(p, q, given) ==
    /\ "category" \in given => Lower(p.category) = Lower(q.category)
    /\ "min_price" \in given => p.price >= q.min_price
    /\ "max_price" \in given => p.price <= q.max_price
    /\ Get(q, "in_stock", TRUE) => p.in_stock /\ p.stock_quantity > 0
    /\ "tag" \in given => HasTag(p, q.tag)

\* C13 as stated: get_products returns exactly the stored products that
\* satisfy every supplied predicate (category and tag ignoring case, the price
\* bounds, in stock unless in_stock is false), in the store's order; a
\* parameter that is supplied is one the query holds.
C13_EverySupplied ==
    last.op = "get_products" =>
        last.lines = SelectSeq(products,
                               LAMBDA p : Satisfies(p, last.item, DOMAIN last.item))

\* C13, amended: the same, where a category or a tag that is the empty string
\* counts as absent.
C13_GetProducts ==
    last.op = "get_products" =>
        LET q == last.item
            given == {key \in DOMAIN q : key \in {"category", "tag"} => q[key] # ""}
        IN /\ last.lines = SelectSeq(products, LAMBDA p : Satisfies(p, q, given))
           /\ last.n_items = Len(last.lines)

\* the category "electronics" found the product whose category is "Electronics"
C13_Witness ==
    /\ last.op = "get_products"
    /\ Get(last.item, "category", None) = "electronics"
    /\ Len(last.lines) = 1
    /\ last.lines[1].category = "Electronics"

----------------------------------------------------------------------------
(* C16 *)

ReadOps == {"get_users", "get_user", "get_products", "get_product", "get_order",
            "get_statistics", "generate_random_data"}

\* the lookups and the filters among them
LookupOps == {"get_users", "get_user", "get_products", "get_product", "get_order"}

\* C16: a call of a read handler (get_users, get_user, get_products,
\* get_product, get_order, get_statistics, generate_random_data) leaves users,
\* products and orders as they were, and a lookup or filter that repeats the
\* call before it, with the same parameters, gives the same response.
C16_ReadsKeepStore ==
    [][last'.op \in ReadOps =>
        /\ users' = users
        /\ products' = products
        /\ orders' = orders
        /\ (/\ last'.op \in LookupOps
            /\ last.op = last'.op
            /\ last.item = last'.item) => last' = last
      ]_vars

\* a filter that returned a part of the products, from a store that still holds
\* the three of them and its order
C16_Witness ==
    /\ last.op = "get_products"
    /\ Len(last.lines) = 1
    /\ Len(products) = 3
    /\ Len(orders) = 1

----------------------------------------------------------------------------
(* C12 *)

\* C12: requests are serialized.  While a create_order call is between its
\* first and its last statement no other handler runs: no read observes the
\* store with a part of the items decremented, no other create_order checks or
\* decrements a stock.  When the call ends, products, orders and the response
\* are those of the whole call run alone on the store it found at its start.
C12_Serialized ==
    [][/\ (running # Idle /\ running' # Idle) =>
              /\ last' = last
              /\ running'.req = running.req
              /\ running'.begin = running.begin
       /\ (running # Idle /\ running' = Idle) =>
              LET r == create_order(running.begin.users, running.begin.products,
                                    running.begin.orders, running.req)
              IN /\ users' = running.begin.users
                 /\ products' = r.products
                 /\ orders' = r.orders
                 /\ last' = r.resp
      ]_vars

\* a call that has sold its first item and not yet reached its second: the
\* stock is lower than the call found it and no order is stored
C12_Witness ==
    /\ running # Idle
    /\ running.i = 2
    /\ Len(Get(running.req, "products", <<>>)) = 2
    /\ products # running.begin.products
    /\ orders = running.begin.orders

============================================================================
